---- MODULE Spec2Model ----
(***************************************************************************)
(* A model of graph_ingestion/email_processor.py (VendorFileProcessor):    *)
(* the identifier normalizer (normalize_upc), the column extractor         *)
(* (extract_vendor_data), the reconciliation engine (create_matching_test) *)
(* and the vendor classifier (detect_file_type and its helpers).           *)
(*                                                                         *)
(* Python strings are TLA+ strings (Len, SubSeq and \o act on them).       *)
(* An Optional value is a sequence of length 0 (None / NaN) or 1           *)
(* (the value).                                                            *)
(***************************************************************************)
EXTENDS Integers, Sequences, FiniteSets, TLC

VARIABLES
    upc,            \* normalize_upc: the argument of the call under test
    key,            \* normalize_upc: the value returned for upc
    key2,           \* normalize_upc: the value returned for key's content
    npc,            \* "start" | "normalized" | "renormalized"
    vendor_data,    \* process_vendor_cycle: vendor tag -> extracted DataFrame
    results,        \* None, or Some(the DataFrame create_matching_test returned)
    match_rates,    \* create_matching_test: vendor tag -> the match rate it printed
    headers,        \* _score_vendor_match: the row passed in
    best_vendor,    \* _score_vendor_match: None before the call, Some(result) after
    is_rainforest,  \* _is_rainforest_headers: None before the call, Some(result) after
    vendor_columns, \* self.vendor_columns
    file_path,      \* detect_file_type: None, or Some(the file of the last call)
    detected,       \* detect_file_type: the value the last call returned
    downloaded_files,   \* process_vendor_cycle: the files of the batch, in order
    vendor_files,       \* process_vendor_cycle: the dict vendor tag -> file, in insertion order
    unidentified_files, \* process_vendor_cycle: the files no signature matched
    cursor,             \* process_vendor_cycle: entries the running loop has consumed
    cpc,                \* "idle" | "start" | "detect" | "extract" | "done"
    extract_args,       \* extract_vendor_data: None, or Some(arguments of the last call)
    data                \* extract_vendor_data: None, or Some(value the last call returned)

normVars == <<upc, key, key2, npc>>
pipeVars == <<vendor_data, results, match_rates>>
scoreVars == <<headers, best_vendor, is_rainforest>>
detectVars == <<vendor_columns, file_path, detected>>
cycleVars == <<downloaded_files, vendor_files, unidentified_files, cursor, cpc,
               extract_args, data>>
vars == <<upc, key, key2, npc, vendor_data, results, match_rates, headers, best_vendor, is_rainforest,
          vendor_columns, file_path, detected, downloaded_files, vendor_files,
          unidentified_files, cursor, cpc, extract_args, data>>

-----------------------------------------------------------------------------
(* Optional values *)

None == <<>>
Some(v) == <<v>>

-----------------------------------------------------------------------------
(* The state after construction (email_processor.py:22-58) and the parts of *)
(* the state a specification leaves at rest                                 *)

\* email_processor.py:51-58
vendor_columns_init ==
    [ECRS |-> [upc_col |-> 0, price_col |-> 20, category_col |-> 3,
               brand_col |-> 4, item_col |-> 5],
     RAINFOREST |-> [upc_col |-> 2, cost_col |-> 12, sheet |-> "Full Price List",
                     header_row |-> 2],
     OSA |-> [upc_col |-> 6, cost_col |-> 4],
     KEHE |-> [upc_col |-> 0, cost_col |-> 8],
     HANA |-> [upc_col |-> 3, cost_col |-> 6],
     UNFI |-> [upc_col |-> 20, cost_col |-> 27, header_row |-> 2]]

NormAtRest == upc = None /\ key = None /\ key2 = None /\ npc = "idle"
PipeAtRest == vendor_data = <<>> /\ results = None /\ match_rates = <<>>
ScoreAtRest == headers = <<>> /\ best_vendor = None /\ is_rainforest = None
DetectAtRest ==
    /\ vendor_columns = vendor_columns_init
    /\ file_path = None
    /\ detected = None
CycleAtRest ==
    /\ downloaded_files = <<>>
    /\ vendor_files = <<>>
    /\ unidentified_files = <<>>
    /\ cursor = 0
    /\ cpc = "idle"
    /\ extract_args = None
    /\ data = None

-----------------------------------------------------------------------------
(* Python string primitives used by normalize_upc *)

Digits == {"0", "1", "2", "3", "4", "5", "6", "7", "8", "9"}
Whitespace == {" "}

CharAt(s, i) == SubSeq(s, i, i)
Take(s, n) == SubSeq(s, 1, n)
Drop(s, n) == SubSeq(s, n + 1, Len(s))

\* str.lstrip(chars)
RECURSIVE lstrip(_, _)
lstrip(s, chars) ==
    IF Len(s) > 0 /\ CharAt(s, 1) \in chars THEN lstrip(Drop(s, 1), chars) ELSE s

\* str.rstrip(chars)
RECURSIVE rstrip(_, _)
rstrip(s, chars) ==
    IF Len(s) > 0 /\ CharAt(s, Len(s)) \in chars
    THEN rstrip(Take(s, Len(s) - 1), chars)
    ELSE s

\* str.strip(): leading and trailing whitespace removed
strip(s) == rstrip(lstrip(s, Whitespace), Whitespace)

\* sep in s
HasChar(s, c) == \E i \in 1..Len(s) : CharAt(s, i) = c

\* s.split(sep)[0]: the text before the first sep (all of s when there is none)
RECURSIVE split_first(_, _)
split_first(s, sep) ==
    IF Len(s) = 0 \/ CharAt(s, 1) = sep
    THEN ""
    ELSE CharAt(s, 1) \o split_first(Drop(s, 1), sep)

RECURSIVE re_sub_remove_hyphens(_, _)
re_sub_remove_hyphens(s, chars) ==
    IF Len(s) = 0 THEN ""
    ELSE IF CharAt(s, 1) = "-" THEN re_sub_remove_hyphens(Drop(s, 1), chars)
    ELSE CharAt(s, 1) \o re_sub_remove_hyphens(Drop(s, 1), chars)

\* re.sub('[chars]', '', s): every character of chars removed
RECURSIVE re_sub_remove(_, _)
re_sub_remove(s, chars) ==
    IF Len(s) = 0 THEN ""
    ELSE IF CharAt(s, 1) \in chars THEN re_sub_remove(Drop(s, 1), chars)
    ELSE CharAt(s, 1) \o re_sub_remove(Drop(s, 1), chars)

isdigit_nonempty(s) == Len(s) > 0

\* str.isdigit(): non-empty and digits only
isdigit(s) == Len(s) > 0 /\ \A i \in 1..Len(s) : CharAt(s, i) \in Digits

-----------------------------------------------------------------------------
(* normalize_upc *)

ShortLimit == 5

is_short_le4(upc_clean) == Len(upc_clean) <= 4

\* email_processor.py:96  len(upc_clean) <= 5
is_short(upc_clean) == Len(upc_clean) <= ShortLimit

remove_check_digit_keep12(upc_clean) ==
    IF Len(upc_clean) = 13 THEN Take(upc_clean, 12) ELSE upc_clean

remove_check_digit_never(upc_clean) == upc_clean

\* email_processor.py:101-108  the check-digit removal by length
remove_check_digit(upc_clean) ==
    IF Len(upc_clean) = 13 THEN Take(upc_clean, 12)
    ELSE IF Len(upc_clean) = 12 THEN Take(upc_clean, 11)
    ELSE IF Len(upc_clean) = 8 THEN upc_clean
    ELSE upc_clean

\* email_processor.py:60-108
normalize_upc(u) ==
    IF u = None THEN None
    ELSE
      LET upc_str == strip(u[1]) IN
      IF upc_str = "" THEN None
      ELSE
        LET upc_cut == IF HasChar(upc_str, ".") THEN split_first(upc_str, ".")
                       ELSE upc_str
            upc_clean == re_sub_remove(upc_cut, {"-"} \cup Whitespace)
        IN
        IF ~isdigit(upc_clean) THEN Some(upc_clean)
        ELSE
          LET upc_nz == lstrip(upc_clean, {"0"}) IN
          IF upc_nz = "" THEN None
          ELSE IF is_short(upc_nz) THEN None
          ELSE Some(remove_check_digit(upc_nz))

-----------------------------------------------------------------------------
(* The raw identifiers the normalizer is exercised on *)

MaxDigits == 14     \* longest run of significant digits
MaxPad == 2         \* most leading zeros prepended

DigitPatterns == {"12345678901234567890", "75925301208270480210"}
Separators == {"-", " "}
Suffixes == {"", ".", ".0", ".50", "A"}

\* The identifiers of tests/test_upc_normalization.py and spec section 8
TestInputs ==
    {"", "   ", "ABC123", "123ABC456", "827048021008", "23547300518",
     "000-75925-30120", "759253012", "12345678901", "123456789012",
     "0123456789012", "00123456789012", "123-456-78901", "0-123-456-78901",
     "406", "0000", "-", ".5", " 12345678 ", "0-0"}

Zeros(z) == SubSeq("0000000000", 1, z)

InsertAt(s, p, c) == Take(s, p) \o c \o Drop(s, p)

PaddedDigits ==
    { Zeros(z) \o Take(pat, n) :
        z \in 0..MaxPad, n \in 0..MaxDigits, pat \in DigitPatterns }

GeneratedInputs ==
    { d \o suf : d \in PaddedDigits, suf \in Suffixes }
    \cup
    { InsertAt(pd[1], pd[2], c) \o suf :
        pd \in { <<d, p>> \in PaddedDigits \X (0..(MaxDigits + MaxPad)) : p <= Len(d) },
        c \in Separators, suf \in {"", ".0"} }

RawInputs == {None} \cup { Some(s) : s \in TestInputs \cup GeneratedInputs }

-----------------------------------------------------------------------------
(* SpecNorm: one call of normalize_upc, then a second call on its result *)

InitNorm ==
    /\ upc \in RawInputs
    /\ key = None
    /\ key2 = None
    /\ npc = "start"
    /\ PipeAtRest
    /\ ScoreAtRest
    /\ DetectAtRest
    /\ CycleAtRest

Normalize ==
    /\ npc = "start"
    /\ key' = normalize_upc(upc)
    /\ npc' = "normalized"
    /\ UNCHANGED <<upc, key2>>
    /\ UNCHANGED <<pipeVars, scoreVars, detectVars, cycleVars>>

Renormalize ==
    /\ npc = "normalized"
    /\ key # None
    /\ key2' = normalize_upc(key)
    /\ npc' = "renormalized"
    /\ UNCHANGED <<upc, key>>
    /\ UNCHANGED <<pipeVars, scoreVars, detectVars, cycleVars>>

NextNorm == Normalize \/ Renormalize

SpecNorm == InitNorm /\ [][NextNorm]_vars

-----------------------------------------------------------------------------
(* DataFrames.  A DataFrame is the sequence of its rows; a row is a function *)
(* from column names to cell values, with its index label under "idx".  The  *)
(* descriptive ECRS columns (category, brand, item, avg_price) take no part  *)
(* in the join and are left out.  Costs are amounts in cents.                *)

DigitValue(c) == CHOOSE n \in 0..9 : CharAt("0123456789", n + 1) = c

RECURSIVE int_of(_)
int_of(s) ==
    IF Len(s) = 0 THEN 0
    ELSE int_of(Take(s, Len(s) - 1)) * 10 + DigitValue(CharAt(s, Len(s)))

\* pd.to_numeric(cell, errors='coerce') on a text cell holding an amount with
\* at most two decimals: anything else becomes NaN
to_numeric(cell) ==
    IF cell = None THEN None
    ELSE
      LET t == strip(cell[1])
          whole == split_first(t, ".")
          frac == IF HasChar(t, ".") THEN Drop(t, Len(whole) + 1) ELSE ""
      IN  IF isdigit(whole) /\ (frac = "" \/ isdigit(frac)) /\ Len(frac) <= 2
          THEN Some(int_of(whole) * 100 + int_of(frac \o Take("00", 2 - Len(frac))))
          ELSE None

dropna_keep_all(df) == df

\* result_df.dropna(subset=['upc_normalized']): the rows keep their labels
dropna(df) == SelectSeq(df, LAMBDA r : r["upc_normalized"] # None)

\* email_processor.py:392-412: the projection of the data rows below the
\* header, the normalized key, and the rows with a null key dropped
result_df(file, vendor_type) ==
    dropna([i \in 1..Len(file) |->
        IF vendor_type = "ECRS"
        THEN [idx |-> i - 1,
              upc |-> file[i].upc,
              upc_normalized |-> normalize_upc(file[i].upc)]
        ELSE [idx |-> i - 1,
              upc |-> file[i].upc,
              unit_cost |-> to_numeric(file[i].cost),
              upc_normalized |-> normalize_upc(file[i].upc)]])

\* email_processor.py:389-405: the positions read with df.iloc[:, n]
column_positions(vendor_type, config) ==
    IF vendor_type = "ECRS"
    THEN {config["upc_col"], config["category_col"], config["brand_col"],
          config["item_col"], config["price_col"]}
    ELSE {config["upc_col"]}
         \cup (IF "cost_col" \in DOMAIN config THEN {config["cost_col"]} ELSE {})

\* email_processor.py:369-386: UNFI is read with pd.read_csv, every other
\* vendor with pd.read_excel, RAINFOREST from the sheet its column map names;
\* reading a file of the other format, or a sheet the workbook lacks, raises
can_read(file, vendor_type, config) ==
    /\ file.readable
    /\ IF vendor_type = "UNFI" THEN file.suffix \in {".csv", ".CSV"}
       ELSE /\ file.suffix \notin {".csv", ".CSV"}
            /\ vendor_type = "RAINFOREST" =>
                  \E i \in 1..Len(file.sheets) : file.sheets[i].name = config["sheet"]

\* email_processor.py:369-386: the header= argument pandas is given, None when
\* line 367 raised before any read; UNFI and RAINFOREST pass
\* config.get("header_row", 2), the other vendors leave the default, row 0
header_argument(vendor_type, vc) ==
    IF vendor_type \notin DOMAIN vc THEN None
    ELSE IF vendor_type \in {"UNFI", "RAINFOREST"}
    THEN Some(IF "header_row" \in DOMAIN vc[vendor_type]
              THEN vc[vendor_type]["header_row"] ELSE 2)
    ELSE Some(0)

extract_vendor_data_uncaught(file, vendor_type, vc) ==
    Some(result_df(file.rows, IF vendor_type \in DOMAIN vc THEN vendor_type ELSE "KEHE"))

\* email_processor.py:362-419.  A file is what pandas makes of it: whether it
\* can be read at all, the number of its columns, and its data rows.  Every
\* exception of the body is caught at line 417 and None returned: the KeyError
\* of an unknown vendor tag (line 367), the error of a file that cannot be read
\* (lines 373-386), the IndexError of a column position beyond the frame
\* (lines 395-405).
extract_vendor_data(file, vendor_type, vc) ==
    IF vendor_type \notin DOMAIN vc THEN None
    ELSE IF ~can_read(file, vendor_type, vc[vendor_type]) THEN None
    ELSE IF \E n \in column_positions(vendor_type, vc[vendor_type]) : n >= file.ncols
    THEN None
    ELSE Some(result_df(file.rows, vendor_type))

-----------------------------------------------------------------------------
(* create_matching_test *)

\* str.lower() of the vendor tags
Lower == [ECRS |-> "ecrs", RAINFOREST |-> "rainforest", OSA |-> "osa",
          KEHE |-> "kehe", HANA |-> "hana", UNFI |-> "unfi"]

\* f'{vendor_name.lower()}_cost'
cost_column(vendor_name) == Lower[vendor_name] \o "_cost"

\* str.endswith
endswith(s, suffix) ==
    /\ Len(s) >= Len(suffix)
    /\ SubSeq(s, Len(s) - Len(suffix) + 1, Len(s)) = suffix

\* results.merge(vendor_df[['upc_normalized', 'unit_cost']],
\*               on='upc_normalized', how='left')['unit_cost']:
\* for every left row in order, one merged row per right row with the same
\* key, in the right frame's order, or one row with NaN when there is none.
\* The merged frame is indexed 0..n-1.
RECURSIVE merge_unit_cost(_, _)
merge_unit_cost(left, right) ==
    IF left = <<>> THEN <<>>
    ELSE
      LET matches == SelectSeq(right,
              LAMBDA r : r["upc_normalized"] = left[1]["upc_normalized"])
      IN  (IF matches = <<>> THEN <<None>>
           ELSE [j \in 1..Len(matches) |-> matches[j]["unit_cost"]])
          \o merge_unit_cost(Tail(left), right)

\* results[col] = merged['unit_cost']: the assigned Series is aligned on the
\* index labels of results, not on row position
assign_aligned(row, merged) ==
    IF row["idx"] < Len(merged) THEN merged[row["idx"] + 1] ELSE None

SetMin(S) == CHOOSE m \in S : \A x \in S : m <= x
SetMax(S) == CHOOSE m \in S : \A x \in S : m >= x

row_max(row, cost_columns) ==
    LET present == { c \in cost_columns : row[c] # None }
    IN  IF present = {} THEN None
        ELSE Some(SetMax({ row[c][1] : c \in present }))

\* results[cost_columns].min(axis=1): NaN cells skipped, NaN when all are
row_min(row, cost_columns) ==
    LET present == { c \in cost_columns : row[c] # None }
    IN  IF present = {} THEN None
        ELSE Some(SetMin({ row[c][1] : c \in present }))

\* results[cost_columns].count(axis=1)
row_count(row, cost_columns) ==
    Cardinality({ c \in cost_columns : row[c] # None })

create_matching_test_inner(vd) ==
    IF "ECRS" \notin DOMAIN vd THEN <<>>
    ELSE SelectSeq(vd["ECRS"], LAMBDA r :
            \E v \in DOMAIN vd \ {"ECRS"} : \E j \in 1..Len(vd[v]) :
                vd[v][j]["upc_normalized"] = r["upc_normalized"])

\* email_processor.py:467-506
create_matching_test(vd) ==
    IF "ECRS" \notin DOMAIN vd THEN <<>>
    ELSE
      LET ecrs_data == vd["ECRS"]
          vendors == DOMAIN vd \ {"ECRS"}
          new_columns == { cost_column(v) : v \in vendors }
          vendor_of(c) == CHOOSE v \in vendors : cost_column(v) = c
          merged(v) == merge_unit_cost(ecrs_data, vd[v])
          joined == [i \in 1..Len(ecrs_data) |->
              [c \in DOMAIN ecrs_data[i] \cup new_columns |->
                  IF c \in new_columns
                  THEN assign_aligned(ecrs_data[i], merged(vendor_of(c)))
                  ELSE ecrs_data[i][c]]]
          cost_columns == { c \in {"upc", "upc_normalized"} \cup new_columns :
                              endswith(c, "_cost") }
      IN  IF cost_columns = {} THEN joined
          ELSE [i \in 1..Len(joined) |->
                  joined[i] @@ [min_cost |-> row_min(joined[i], cost_columns),
                                cost_sources |-> row_count(joined[i], cost_columns)]]

-----------------------------------------------------------------------------
(* SpecPipe: a batch is extracted file by file, then reconciled *)

MaxRows == 2        \* most data rows in one file
MaxBatchRows == 4   \* most data rows in the files of one batch

CostVendors == {"KEHE", "HANA"}

\* The identifier cells: the base identifier and the UNFI identifier of the
\* end-to-end scenario, and a short code
UpcCells == {Some("759253012"), Some("000-75925-30120"), Some("406")}
CostCells == {Some("1.50"), Some("2.25"), Some("N/A")}

BaseFiles == UNION { [1..n -> [upc : UpcCells]] : n \in 0..MaxRows }
CostFiles == UNION { [1..n -> [upc : UpcCells, cost : CostCells]] : n \in 0..MaxRows }

\* The widest frame the column maps ask for
AllColumns ==
    1 + SetMax(UNION { column_positions(v, vendor_columns_init[v]) :
                         v \in DOMAIN vendor_columns_init })

\* A file pandas reads, with every column the column maps ask for
Readable(rows) ==
    [suffix |-> ".xlsx", sheets |-> <<>>, readable |-> TRUE, ncols |-> AllColumns,
     rows |-> rows]

\* The data rows the batch has read so far, by the labels of the frames held
\* (a dropped row leaves a gap in the labels)

\* email_processor.py:496-497: matches = merged['unit_cost'].notna().sum() and
\* the rate printed is matches / len(results) * 100; the rate is kept as the
\* pair <<matches, len(results)>>
match_rate(ecrs_data, vendor_df) ==
    LET merged == merge_unit_cost(ecrs_data, vendor_df)
    IN  <<Cardinality({ j \in 1..Len(merged) : merged[j] # None }), Len(ecrs_data)>>

\* the rates create_matching_test prints, one per vendor of the loop at 482
printed_match_rates(vd) ==
    IF "ECRS" \notin DOMAIN vd THEN <<>>
    ELSE [v \in DOMAIN vd \ {"ECRS"} |-> match_rate(vd["ECRS"], vd[v])]

RowsOf(df) == IF df = <<>> THEN 0 ELSE df[Len(df)]["idx"] + 1

RECURSIVE RowsRead(_)
RowsRead(vd) ==
    IF DOMAIN vd = {} THEN 0
    ELSE LET v == CHOOSE x \in DOMAIN vd : TRUE
         IN  RowsOf(vd[v]) + RowsRead([w \in DOMAIN vd \ {v} |-> vd[w]])

InitPipe ==
    /\ NormAtRest
    /\ vendor_data = <<>>
    /\ results = None
    /\ match_rates = <<>>
    /\ ScoreAtRest
    /\ DetectAtRest
    /\ CycleAtRest

\* process_vendor_cycle, lines 451-457: one file of the batch is extracted and,
\* extract_vendor_data returning a frame, stored under its vendor tag
ExtractVendorData(vendor_type, file) ==
    /\ npc = "idle"
    /\ results = None
    /\ vendor_type \notin DOMAIN vendor_data
    /\ RowsRead(vendor_data) + Len(file) <= MaxBatchRows
    /\ LET extracted == extract_vendor_data(Readable(file), vendor_type, vendor_columns)
       IN  vendor_data' = IF extracted # None
                          THEN (vendor_type :> extracted[1]) @@ vendor_data
                          ELSE vendor_data
    /\ UNCHANGED <<results, match_rates>>
    /\ UNCHANGED <<normVars, scoreVars, detectVars, cycleVars>>

\* main, line 519: the extracted batch is reconciled
CreateMatchingTest ==
    /\ npc = "idle"
    /\ results = None
    /\ results' = Some(create_matching_test(vendor_data))
    /\ match_rates' = printed_match_rates(vendor_data)
    /\ UNCHANGED <<vendor_data>>
    /\ UNCHANGED <<normVars, scoreVars, detectVars, cycleVars>>

NextPipe ==
    \/ \E file \in BaseFiles : ExtractVendorData("ECRS", file)
    \/ \E v \in CostVendors, file \in CostFiles : ExtractVendorData(v, file)
    \/ CreateMatchingTest

SpecPipe == InitPipe /\ [][NextPipe]_vars

-----------------------------------------------------------------------------
(* The signature registry and _score_vendor_match *)

\* email_processor.py:27-48
file_signatures ==
    [HANA |-> [required |-> <<"HANA ID", "UPC UNIT", "UNIT PRICE">>,
               forbidden |-> <<"ITEM #", "AUGUST", "ECRS", "CUST NBR">>],
     KEHE |-> [required |-> <<"UPC#", "AUGUST UNIT COST">>,
               forbidden |-> <<"HANA ID", "ECRS", "CUST NBR", "MANUFACTURER NAME">>],
     OSA  |-> [required |-> <<"UPRICE", "UNIT UPC", "CASE UPC">>,
               forbidden |-> <<"AUGUST", "HANA ID", "ITEM NO.", "CUST NBR">>],
     UNFI |-> [required |-> <<"CUST NBR", "ZONE", "UNIT COST">>,
               forbidden |-> <<"UPC#", "AUGUST", "HANA ID", "MANUFACTURER NAME">>],
     ECRS |-> [required |-> <<"UPC", "DEPT", "SUBDEPT", "AVG PRICE">>,
               forbidden |-> <<"UPC#", "AUGUST", "HANA ID", "CUST NBR",
                               "MANUFACTURER NAME">>]]

\* The order in which the dict file_signatures is iterated: insertion order
signature_order == <<"HANA", "KEHE", "OSA", "UNFI", "ECRS">>

UpperOf ==
    [a |-> "A", b |-> "B", c |-> "C", d |-> "D", e |-> "E", f |-> "F", g |-> "G",
     h |-> "H", i |-> "I", j |-> "J", k |-> "K", l |-> "L", m |-> "M", n |-> "N",
     o |-> "O", p |-> "P", q |-> "Q", r |-> "R", s |-> "S", t |-> "T", u |-> "U",
     v |-> "V", w |-> "W", x |-> "X", y |-> "Y", z |-> "Z"]

\* str.upper()
RECURSIVE upper(_)
upper(s) ==
    IF Len(s) = 0 THEN ""
    ELSE (IF CharAt(s, 1) \in DOMAIN UpperOf THEN UpperOf[CharAt(s, 1)]
          ELSE CharAt(s, 1))
         \o upper(Drop(s, 1))

\* sep.join(parts)
RECURSIVE join(_, _)
join(parts, sep) ==
    IF parts = <<>> THEN ""
    ELSE IF Len(parts) = 1 THEN parts[1]
    ELSE parts[1] \o sep \o join(Tail(parts), sep)

\* token in text
Contains(text, token) ==
    \E i \in 1..(Len(text) - Len(token) + 1) :
        SubSeq(text, i, i + Len(token) - 1) = token

\* email_processor.py:269-270: the cells of a row (None for a missing cell)
\* trimmed, upper-cased and joined by single spaces
headers_text(row) ==
    join([i \in 1..Len(row) |->
            IF row[i] # None /\ row[i][1] # "nan" THEN upper(strip(row[i][1]))
            ELSE ""], " ")

\* email_processor.py:284  required_matches
required_matches(vendor, text) ==
    Cardinality({ i \in 1..Len(file_signatures[vendor].required) :
                    Contains(text, upper(file_signatures[vendor].required[i])) })

forbidden_found_never(vendor, text) == FALSE

\* email_processor.py:288  forbidden_found
forbidden_found(vendor, text) ==
    \E i \in 1..Len(file_signatures[vendor].forbidden) :
        Contains(text, upper(file_signatures[vendor].forbidden[i]))

\* email_processor.py:291: all required tokens present and no forbidden one
IsCandidate(vendor, text) ==
    /\ required_matches(vendor, text) = Len(file_signatures[vendor].required)
    /\ ~forbidden_found(vendor, text)

RatioGreaterOrEqual(x, y) == x[1] * y[2] >= y[1] * x[2]

\* a / b > c / d for the ratios <<a, b>> and <<c, d>>
RatioGreater(x, y) == x[1] * y[2] > y[1] * x[2]

\* email_processor.py:279-295: the loop over the registry; a candidate replaces
\* the best one only with a strictly greater required-match ratio
RECURSIVE score_loop(_, _, _, _)
score_loop(i, text, best, best_score) ==
    IF i > Len(signature_order) THEN best
    ELSE
      LET vendor == signature_order[i]
          required_score ==
              <<required_matches(vendor, text), Len(file_signatures[vendor].required)>>
      IN  IF IsCandidate(vendor, text) /\ RatioGreater(required_score, best_score)
          THEN score_loop(i + 1, text, Some(vendor), required_score)
          ELSE score_loop(i + 1, text, best, best_score)

\* email_processor.py:262-297
_score_vendor_match(row) ==
    IF row = <<>> THEN None
    ELSE
      LET text == headers_text(row) IN
      IF strip(text) = "" THEN None
      ELSE score_loop(1, text, None, <<0, 1>>)

_is_rainforest_headers_any_upc(row) ==
    IF row = <<>> THEN FALSE
    ELSE
      LET text == upper(join([i \in 1..Len(row) |->
                      IF row[i] # None /\ row[i][1] # "nan" THEN strip(row[i][1])
                      ELSE ""], " "))
          required == <<"ITEM NO", "MANUFACTURER NAME", "UNIT COST">>
          score == Cardinality({ i \in 1..Len(required) : Contains(text, required[i]) })
                   + (IF Contains(text, "UPC") THEN 1 ELSE 0)
      IN  score >= 3

\* email_processor.py:234-260
_is_rainforest_headers(row) ==
    IF row = <<>> THEN FALSE
    ELSE
      LET text == upper(join([i \in 1..Len(row) |->
                      IF row[i] # None /\ row[i][1] # "nan" THEN strip(row[i][1])
                      ELSE ""], " "))
          required == <<"ITEM NO", "MANUFACTURER NAME", "UNIT COST">>
          score == Cardinality({ i \in 1..Len(required) : Contains(text, required[i]) })
                   + (IF Contains(text, "UPC") /\ ~Contains(text, "UPC#") THEN 1 ELSE 0)
      IN  score >= 3

-----------------------------------------------------------------------------
(* SpecScore: _score_vendor_match or _is_rainforest_headers on one row of *)
(* header cells                                                           *)

MaxCells == 5       \* most cells in a scored row

\* Header cells as the vendors' files spell them, and a missing cell
HeaderCells ==
    <<Some("HANA ID"), Some("UPC Unit"), Some("Unit Price"), Some("UPC#"),
      Some("August Unit Cost"), Some("UPrice"), Some("Unit UPC"), Some("Case UPC"),
      Some("Cust Nbr"), Some("Zone"), Some("Unit Cost"), Some("UPC"), Some("Dept"),
      Some("Subdept"), Some("Avg Price"), Some("Item #"), Some("Item No."),
      Some("Manufacturer Name"), Some("ECRS"), None>>

\* The increasing index lists of at most n positions of HeaderCells: the rows
\* of at most n cells taken from HeaderCells in the order of the list
RECURSIVE IndexLists(_)
IndexLists(n) ==
    IF n = 0 THEN { <<>> }
    ELSE LET shorter == IndexLists(n - 1)
         IN  shorter \cup
             { Append(pr[1], pr[2]) :
                 pr \in { qi \in { q \in shorter : Len(q) = n - 1 }
                                  \X (1..Len(HeaderCells)) :
                            qi[1] = <<>> \/ qi[1][Len(qi[1])] < qi[2] } }

ScoredRows ==
    { [i \in 1..Len(r) |-> HeaderCells[r[i]]] : r \in IndexLists(MaxCells) }

InitScore ==
    /\ NormAtRest
    /\ PipeAtRest
    /\ headers \in ScoredRows
    /\ best_vendor = None
    /\ is_rainforest = None
    /\ DetectAtRest
    /\ CycleAtRest

\* one row is put to one of the two checks
ScoreVendorMatch ==
    /\ best_vendor = None
    /\ is_rainforest = None
    /\ best_vendor' = Some(_score_vendor_match(headers))
    /\ UNCHANGED <<headers, is_rainforest>>
    /\ UNCHANGED <<normVars, pipeVars, detectVars, cycleVars>>

IsRainforestHeaders ==
    /\ best_vendor = None
    /\ is_rainforest = None
    /\ is_rainforest' = Some(_is_rainforest_headers(headers))
    /\ UNCHANGED <<headers, best_vendor>>
    /\ UNCHANGED <<normVars, pipeVars, detectVars, cycleVars>>

NextScore ==
    \/ ScoreVendorMatch
    \/ IsRainforestHeaders

SpecScore == InitScore /\ [][NextScore]_vars

-----------------------------------------------------------------------------
(* Files as the classifier reads them.  A file has a suffix and sheets (a    *)
(* delimited file has one); a sheet has a name, the row pandas parses as the *)
(* column headers, and the data rows below it.  A row is a sequence of       *)
(* cells, None for a missing one.  A sheet whose read raises (pd.read_csv,   *)
(* pd.read_excel) is marked so.                                              *)

RowsToCheck == 8        \* the data rows probed per sheet
ReadRows == 10          \* nrows=10
SheetsToCheck == 3      \* excel_file.sheet_names[:3]

MaxExtraRows == 1       \* most filler rows pushing a signature row out of the probed rows
MaxSheets == 4          \* most sheets in a workbook

TitleRow == <<Some("Price List 2025"), None, None>>
DataRow == <<Some("00075925301"), Some("Acme Foods"), Some("1.50")>>
UnfiRow == <<Some("Cust Nbr"), Some("Zone"), Some("Unit Cost")>>
KeheRow == <<Some("UPC#"), Some("Brand"), Some("August Unit Cost")>>
RainforestRow ==
    <<Some("Item No."), Some("Manufacturer Name"), Some("UPC"), Some("Unit Cost")>>
EcrsRow == <<Some("UPC"), Some("Dept"), Some("Subdept"), Some("Avg Price")>>

FileRows == {TitleRow, DataRow, UnfiRow, KeheRow, RainforestRow, EcrsRow}
SignatureRows == {UnfiRow, KeheRow, RainforestRow}

\* Where a signature row lies among the data rows: first, second, last probed
\* row, and below the probed rows
SignaturePositions ==
    {0, 1} \cup ((RowsToCheck - 1)..(RowsToCheck - 1 + MaxExtraRows))

Fillers(n) == [i \in 1..n |-> DataRow]

SheetBodies ==
    { [columns |-> h, rows |-> Fillers(n)] :
        h \in {TitleRow} \cup SignatureRows, n \in 0..1 }
    \cup
    { [columns |-> TitleRow, rows |-> Append(Fillers(p), k)] :
        p \in SignaturePositions, k \in SignatureRows }

Named(body, name) ==
    [name |-> name, columns |-> body.columns, rows |-> body.rows, raises |-> FALSE]

Unreadable(sheet) == [sheet EXCEPT !.raises = TRUE]

BlankSheet(i) == Named([columns |-> TitleRow, rows |-> <<DataRow>>],
                       "Sheet" \o CharAt("123456789", i))

CsvFiles ==
    { [suffix |-> sfx, sheets |-> <<Named(b, "")>>] :
        sfx \in {".csv", ".CSV"}, b \in SheetBodies }
    \cup
    { [suffix |-> ".csv", sheets |-> <<Unreadable(Named(b, ""))>>] :
        b \in { x \in SheetBodies : x.rows = <<>> } }

\* Workbooks of blank sheets, readable or not, followed by one sheet, under a
\* plain name or as "Full Price List"; and workbooks of a "Full Price List"
\* sheet, readable or not, beside a sheet with a registered signature, in both
\* orders
Workbooks ==
    { [suffix |-> ".xlsx",
       sheets |-> Append([i \in 1..(n - 1) |->
                            IF bad THEN Unreadable(BlankSheet(i)) ELSE BlankSheet(i)],
                         Named(b, nm))] :
        n \in 1..MaxSheets, b \in SheetBodies, nm \in {"Data", "Full Price List"},
        bad \in BOOLEAN }
    \cup
    { [suffix |-> ".xlsx",
       sheets |-> LET fpl == IF bad THEN Unreadable(Named(f, "Full Price List"))
                             ELSE Named(f, "Full Price List")
                  IN  IF fplFirst THEN <<fpl, Named(g, "Data")>>
                      ELSE <<Named(g, "Data"), fpl>>] :
        fplFirst \in BOOLEAN, bad \in BOOLEAN,
        f \in { b \in SheetBodies : /\ b.columns = TitleRow
                                    /\ b.rows # <<>>
                                    /\ b.rows[Len(b.rows)] \in {DataRow, RainforestRow} },
        g \in { b \in SheetBodies : b.columns \in {KeheRow, UnfiRow} /\ b.rows = <<>> } }

Files == CsvFiles \cup Workbooks

-----------------------------------------------------------------------------
(* The classifier *)

LowerOf ==
    [A |-> "a", B |-> "b", C |-> "c", D |-> "d", E |-> "e", F |-> "f", G |-> "g",
     H |-> "h", I |-> "i", J |-> "j", K |-> "k", L |-> "l", M |-> "m", N |-> "n",
     O |-> "o", P |-> "p", Q |-> "q", R |-> "r", S |-> "s", T |-> "t", U |-> "u",
     V |-> "v", W |-> "w", X |-> "x", Y |-> "y", Z |-> "z"]

\* str.lower()
RECURSIVE lower(_)
lower(s) ==
    IF Len(s) = 0 THEN ""
    ELSE (IF CharAt(s, 1) \in DOMAIN LowerOf THEN LowerOf[CharAt(s, 1)]
          ELSE CharAt(s, 1))
         \o lower(Drop(s, 1))

Min(a, b) == IF a <= b THEN a ELSE b

\* _score_vendor_match and _is_rainforest_headers on the rows files are made
\* of, evaluated once per row
row_score == [r \in FileRows |-> _score_vendor_match(r)]
row_is_rainforest == [r \in FileRows |-> _is_rainforest_headers(r)]

\* The position of the first row from position c on that a signature matches,
\* 0 when there is none: the loops that return on the first match
RECURSIVE first_scored(_, _)
first_scored(rows, c) ==
    IF c > Len(rows) THEN 0
    ELSE IF row_score[rows[c]] # None THEN c
    ELSE first_scored(rows, c + 1)

RECURSIVE first_rainforest(_, _)
first_rainforest(rows, c) ==
    IF c > Len(rows) THEN 0
    ELSE IF row_is_rainforest[rows[c]] THEN c
    ELSE first_rainforest(rows, c + 1)

probed_rows_all(sheet) == Take(sheet.rows, Min(Len(sheet.rows), ReadRows))

\* pd.read_csv / pd.read_excel with nrows=10, then range(min(len(df), 8))
probed_rows(sheet) == Take(sheet.rows, Min(Min(Len(sheet.rows), ReadRows), RowsToCheck))

_detect_csv_vendor_fallback(file, vc) ==
    LET rows_to_check == <<file.sheets[1].columns>> \o probed_rows(file.sheets[1])
        c == IF file.sheets[1].raises THEN 0 ELSE first_scored(rows_to_check, 1)
    IN  [vendor |-> IF c = 0 THEN Some("KEHE") ELSE row_score[rows_to_check[c]],
         vendor_columns |-> vc]

_detect_csv_vendor_writes_always(file, vc) ==
    LET df == file.sheets[1]
        rows_to_check == <<df.columns>> \o probed_rows(df)
        c == IF df.raises THEN 0 ELSE first_scored(rows_to_check, 1)
    IN  IF c = 0 THEN [vendor |-> None, vendor_columns |-> vc]
        ELSE [vendor |-> row_score[rows_to_check[c]],
              vendor_columns |->
                  [vc EXCEPT !["UNFI"]["header_row"] = IF c >= 2 THEN c - 2 ELSE 0]]

\* email_processor.py:126-162.  rows_to_check is the header row ('csv_headers')
\* followed by the probed data rows ('csv_row_i'); row_index is i for
\* 'csv_row_i' and 0 for 'csv_headers'.  An exception of pd.read_csv is caught
\* at line 160 and None returned.
_detect_csv_vendor(file, vc) ==
    LET df == file.sheets[1]
        rows_to_check == <<df.columns>> \o probed_rows(df)
        c == IF df.raises THEN 0 ELSE first_scored(rows_to_check, 1)
    IN  IF c = 0 THEN [vendor |-> None, vendor_columns |-> vc]
        ELSE
          LET vendor == row_score[rows_to_check[c]][1]
              row_index == IF c >= 2 THEN c - 2 ELSE 0
          IN  [vendor |-> Some(vendor),
               vendor_columns |->
                   IF vendor = "UNFI" THEN [vc EXCEPT !["UNFI"]["header_row"] = row_index]
                   ELSE vc]

\* email_processor.py:210-232.  An exception of pd.read_excel is caught at
\* line 230 and None returned.
_check_rainforest_sheet(file, vc) ==
    LET df == CHOOSE sh \in { file.sheets[i] : i \in 1..Len(file.sheets) } :
                  sh.name = "Full Price List"
        c == IF df.raises THEN 0 ELSE first_rainforest(probed_rows(df), 1)
    IN  IF c = 0 THEN [vendor |-> None, vendor_columns |-> vc]
        ELSE [vendor |-> Some("RAINFOREST"),
              vendor_columns |-> [vc EXCEPT !["RAINFOREST"]["header_row"] = c - 1]]

RECURSIVE check_sheets_abort(_, _)
check_sheets_abort(sheets, n) ==
    IF n > Len(sheets) THEN None
    ELSE IF sheets[n].raises THEN None
    ELSE
      LET c == first_scored(<<sheets[n].columns>> \o probed_rows(sheets[n]), 1)
      IN  IF c # 0
          THEN row_score[(<<sheets[n].columns>> \o probed_rows(sheets[n]))[c]]
          ELSE check_sheets_abort(sheets, n + 1)

\* email_processor.py:180-204: the first sheets in order, the header row of
\* each before its data rows; a sheet whose read raises is passed over
\* (lines 200-202)
RECURSIVE check_sheets(_, _)
check_sheets(sheets, n) ==
    IF n > Len(sheets) THEN None
    ELSE IF sheets[n].raises THEN check_sheets(sheets, n + 1)
    ELSE
      LET c == first_scored(<<sheets[n].columns>> \o probed_rows(sheets[n]), 1)
      IN  IF c # 0
          THEN row_score[(<<sheets[n].columns>> \o probed_rows(sheets[n]))[c]]
          ELSE check_sheets(sheets, n + 1)

_detect_excel_vendor_generic_first(file, vc) ==
    LET generic == check_sheets(Take(file.sheets, Min(Len(file.sheets), SheetsToCheck)), 1)
    IN  IF generic # None THEN [vendor |-> generic, vendor_columns |-> vc]
        ELSE IF \E i \in 1..Len(file.sheets) : file.sheets[i].name = "Full Price List"
        THEN _check_rainforest_sheet(file, vc)
        ELSE [vendor |-> None, vendor_columns |-> vc]

\* email_processor.py:164-208
_detect_excel_vendor(file, vc) ==
    LET sheet_names == [i \in 1..Len(file.sheets) |-> file.sheets[i].name]
        rainforest ==
            IF \E i \in 1..Len(sheet_names) : sheet_names[i] = "Full Price List"
            THEN _check_rainforest_sheet(file, vc)
            ELSE [vendor |-> None, vendor_columns |-> vc]
    IN  IF rainforest.vendor # None THEN rainforest
        ELSE [vendor |-> check_sheets(Take(file.sheets, Min(Len(file.sheets), SheetsToCheck)), 1),
              vendor_columns |-> vc]

\* email_processor.py:110-124
detect_file_type(file, vc) ==
    IF lower(file.suffix) = ".csv" THEN _detect_csv_vendor(file, vc)
    ELSE _detect_excel_vendor(file, vc)

-----------------------------------------------------------------------------
(* SpecDetect: files are classified one after another on one processor *)

InitDetect ==
    /\ NormAtRest
    /\ PipeAtRest
    /\ ScoreAtRest
    /\ vendor_columns = vendor_columns_init
    /\ file_path = None
    /\ detected = None
    /\ CycleAtRest

DetectFileType(file) ==
    /\ npc = "idle"
    /\ LET r == detect_file_type(file, vendor_columns)
       IN  /\ detected' = r.vendor
           /\ vendor_columns' = r.vendor_columns
    /\ file_path' = Some(file)
    /\ UNCHANGED <<normVars, pipeVars, scoreVars, cycleVars>>

NextDetect == \E file \in Files : DetectFileType(file)

SpecDetect == InitDetect /\ [][NextDetect]_vars

-----------------------------------------------------------------------------
(* SpecCycle: process_vendor_cycle.  The files of a batch are classified one *)
(* by one, then the file kept for each vendor is extracted; afterwards       *)
(* extract_vendor_data may be called on its own.  A batch file is seen twice:*)
(* by the classifier as its suffix and sheets, by the extractor as whether   *)
(* pandas reads it, its number of columns and its identifier and cost cells. *)

MaxFiles == 2       \* most files in a batch

KeheBook == [suffix |-> ".xlsx",
             sheets |-> <<Named([columns |-> KeheRow, rows |-> <<>>], "Data")>>]
KeheCsv == [suffix |-> ".csv",
            sheets |-> <<Named([columns |-> KeheRow, rows |-> <<>>], "")>>]
UnfiCsv == [suffix |-> ".csv",
            sheets |-> <<Named([columns |-> TitleRow, rows |-> <<DataRow, UnfiRow>>], "")>>]
TitleCsv == [suffix |-> ".csv",
             sheets |-> <<Named([columns |-> TitleRow, rows |-> <<DataRow>>], "")>>]
RainforestBook ==
    [suffix |-> ".xlsx",
     sheets |-> <<Named([columns |-> TitleRow, rows |-> <<RainforestRow>>],
                        "Full Price List")>>]
EcrsBook == [suffix |-> ".xlsx",
             sheets |-> <<Named([columns |-> EcrsRow, rows |-> <<>>], "Data")>>]

Layouts == {KeheBook, KeheCsv, UnfiCsv, TitleCsv, RainforestBook, EcrsBook}

\* What the extractor finds: a file pandas cannot read, a frame too narrow for
\* the column maps, and a frame of full width whose first row is a short code
Frames ==
    { [readable |-> FALSE, ncols |-> 0, rows |-> <<>>],
      [readable |-> TRUE, ncols |-> vendor_columns_init["HANA"]["upc_col"],
       rows |-> <<[upc |-> Some("000-75925-30120"), cost |-> Some("1.50")]>>],
      [readable |-> TRUE, ncols |-> AllColumns,
       rows |-> <<[upc |-> Some("406"), cost |-> Some("2.25")],
                  [upc |-> Some("000-75925-30120"), cost |-> Some("1.50")]>>] }

BatchFile(layout, frame) ==
    [suffix |-> layout.suffix, sheets |-> layout.sheets,
     readable |-> frame.readable, ncols |-> frame.ncols, rows |-> frame.rows]

BatchFiles == { BatchFile(l, fr) : l \in Layouts, fr \in Frames }

Batches == UNION { [1..n -> BatchFiles] : n \in 0..MaxFiles }

\* The calls of extract_vendor_data made outside a cycle
DirectCalls ==
    { [file |-> BatchFile(KeheBook, fr), vendor_type |-> v] :
        fr \in Frames, v \in {"KEHE", "ACME"} }

\* vendor_files[vendor_type] = file_path on a dict kept in insertion order
RECURSIVE dict_set(_, _, _)
dict_set(d, k, v) ==
    IF d = <<>> THEN <<[vendor |-> k, file |-> v]>>
    ELSE IF d[1].vendor = k THEN <<[vendor |-> k, file |-> v]>> \o Tail(d)
    ELSE <<d[1]>> \o dict_set(Tail(d), k, v)

InitCycle ==
    /\ NormAtRest
    /\ PipeAtRest
    /\ ScoreAtRest
    /\ DetectAtRest
    /\ downloaded_files \in Batches
    /\ vendor_files = <<>>
    /\ unidentified_files = <<>>
    /\ cursor = 0
    /\ cpc = "start"
    /\ extract_args = None
    /\ data = None

\* email_processor.py:432-440: nothing downloaded ends the cycle
Download ==
    /\ cpc = "start"
    /\ cpc' = IF downloaded_files = <<>> THEN "done" ELSE "detect"
    /\ UNCHANGED <<downloaded_files, vendor_files, unidentified_files, cursor,
                   extract_args, data>>
    /\ UNCHANGED <<normVars, pipeVars, scoreVars, detectVars>>

\* email_processor.py:442-449: one pass of the classification loop
Classify ==
    /\ cpc = "detect"
    /\ cursor < Len(downloaded_files)
    /\ LET file == downloaded_files[cursor + 1]
           r == detect_file_type(file, vendor_columns)
       IN  /\ vendor_columns' = r.vendor_columns
           /\ detected' = r.vendor
           /\ file_path' = Some(file)
           /\ IF r.vendor # None
              THEN /\ vendor_files' = dict_set(vendor_files, r.vendor[1], file)
                   /\ UNCHANGED unidentified_files
              ELSE /\ unidentified_files' = Append(unidentified_files, file)
                   /\ UNCHANGED vendor_files
    /\ cursor' = cursor + 1
    /\ UNCHANGED <<downloaded_files, cpc, extract_args, data>>
    /\ UNCHANGED <<normVars, pipeVars, scoreVars>>

\* email_processor.py:451-452: the classification loop is over
BeginExtract ==
    /\ cpc = "detect"
    /\ cursor = Len(downloaded_files)
    /\ cpc' = "extract"
    /\ cursor' = 0
    /\ vendor_data' = <<>>
    /\ UNCHANGED <<downloaded_files, vendor_files, unidentified_files,
                   extract_args, data, results, match_rates>>
    /\ UNCHANGED <<normVars, scoreVars, detectVars>>

\* email_processor.py:454-457: one pass of the extraction loop
Extract ==
    /\ cpc = "extract"
    /\ cursor < Len(vendor_files)
    /\ LET entry == vendor_files[cursor + 1]
           extracted == extract_vendor_data(entry.file, entry.vendor, vendor_columns)
       IN  /\ extract_args' = Some([file |-> entry.file, vendor_type |-> entry.vendor,
                                    header |-> header_argument(entry.vendor, vendor_columns)])
           /\ data' = Some(extracted)
           /\ vendor_data' = IF extracted # None
                             THEN (entry.vendor :> extracted[1]) @@ vendor_data
                             ELSE vendor_data
    /\ cursor' = cursor + 1
    /\ UNCHANGED <<downloaded_files, vendor_files, unidentified_files, cpc,
                   results, match_rates>>
    /\ UNCHANGED <<normVars, scoreVars, detectVars>>

\* email_processor.py:459-465
Return ==
    /\ cpc = "extract"
    /\ cursor = Len(vendor_files)
    /\ cpc' = "done"
    /\ UNCHANGED <<downloaded_files, vendor_files, unidentified_files, cursor,
                   extract_args, data>>
    /\ UNCHANGED <<normVars, pipeVars, scoreVars, detectVars>>

\* email_processor.py:362-419: a call of extract_vendor_data on its own
ExtractCall(call) ==
    /\ cpc = "done"
    /\ extract_args' = Some([file |-> call.file, vendor_type |-> call.vendor_type,
                             header |-> header_argument(call.vendor_type, vendor_columns)])
    /\ data' = Some(extract_vendor_data(call.file, call.vendor_type, vendor_columns))
    /\ UNCHANGED <<downloaded_files, vendor_files, unidentified_files, cursor, cpc>>
    /\ UNCHANGED <<normVars, pipeVars, scoreVars, detectVars>>

\* main, lines 517-519: a batch that gave some extract is reconciled
Reconcile ==
    /\ cpc = "done"
    /\ results = None
    /\ vendor_data # <<>>
    /\ results' = Some(create_matching_test(vendor_data))
    /\ match_rates' = printed_match_rates(vendor_data)
    /\ UNCHANGED <<vendor_data>>
    /\ UNCHANGED <<normVars, scoreVars, detectVars, cycleVars>>

NextCycle ==
    \/ Download
    \/ Classify
    \/ BeginExtract
    \/ Extract
    \/ Return
    \/ \E call \in DirectCalls : ExtractCall(call)
    \/ Reconcile

SpecCycle == InitCycle /\ [][NextCycle]_vars

-----------------------------------------------------------------------------
(* Properties of normalize_upc, checked under SpecNorm *)

\* The reading of "all-digit identifier with hyphens, whitespace and leading
\* zeros": digits and separators only, at least one digit
IsDigitsWithSeparators(s) ==
    /\ \A i \in 1..Len(s) : CharAt(s, i) \in Digits \cup {"-"} \cup Whitespace
    /\ \E i \in 1..Len(s) : CharAt(s, i) \in Digits

\* The digits left after hyphens, whitespace and leading zeros are stripped
Significant(s) == lstrip(re_sub_remove(s, {"-"} \cup Whitespace), {"0"})

\* C1: normalize_upc is idempotent on its own output: whenever normalize_upc(x)
\* is a non-null key k, normalize_upc(k) is k again.  Stated for the numeric
\* keys the claim names.
C1_Idempotent == (npc = "renormalized" /\ isdigit(key[1])) => key2 = key

C8_Rejects ==
    (/\ npc # "start"
     /\ \/ upc = None
        \/ strip(upc[1]) = ""
        \/ IsDigitsWithSeparators(upc[1]) /\ Len(Significant(upc[1])) <= 5)
    => key = None

\* A five-digit code behind leading zeros was rejected
C8_Witness ==
    /\ npc = "normalized"
    /\ upc = Some("0012345")
    /\ key = None

-----------------------------------------------------------------------------
(* Properties of extraction and reconciliation, checked under SpecPipe *)

Reconciled == results # None /\ "ECRS" \in DOMAIN vendor_data
Contributing == DOMAIN vendor_data \ {"ECRS"}

\* The unit cost of the first record of a vendor extract with the given key
FirstMatchCost(vendor_df, k) ==
    LET matches == SelectSeq(vendor_df, LAMBDA r : r["upc_normalized"] = k)
    IN  IF matches = <<>> THEN None ELSE matches[1]["unit_cost"]

KeyOccurs(vendor_df, k) ==
    \E j \in 1..Len(vendor_df) : vendor_df[j]["upc_normalized"] = k

AllCostsParsed(vendor_df) ==
    \A j \in 1..Len(vendor_df) : vendor_df[j]["unit_cost"] # None

\* C2: the raw identifier "000-75925-30120" normalizes to "759253012", so a
\* base record with key "759253012" reconciled with one vendor extract holding
\* that raw identifier gives one matched record with cost_sources = 1.
C2_EndToEnd ==
    (/\ Reconciled
     /\ Len(vendor_data["ECRS"]) = 1
     /\ vendor_data["ECRS"][1]["upc_normalized"] = Some("759253012")
     /\ \E v \in Contributing :
           /\ Contributing = {v}
           /\ Len(vendor_data[v]) = 1
           /\ vendor_data[v][1]["upc"] = Some("000-75925-30120")
           /\ vendor_data[v][1]["unit_cost"] # None)
    => /\ \A v \in Contributing :
             vendor_data[v][1]["upc_normalized"] = Some("759253012")
       /\ Len(results[1]) = 1
       /\ "cost_sources" \in DOMAIN results[1][1]
       /\ results[1][1]["cost_sources"] = 1

\* C3: after create_matching_test, the cost column of every base record for
\* every contributing vendor is the unit cost of the first record of that
\* vendor's extract with the base record's key, and null when there is none.
C3_FirstMatch ==
    Reconciled =>
        \A i \in 1..Len(results[1]) : \A v \in Contributing :
            results[1][i][cost_column(v)]
                = FirstMatchCost(vendor_data[v], results[1][i]["upc_normalized"])

\* C4: with one cost extract, min_cost is non-null and cost_sources >= 1 for
\* exactly the base records whose key occurs in the cost extract, and min_cost
\* is null for the others.  Checked on cost extracts whose costs all parsed.
C4_MatchedExactly ==
    (Reconciled /\ \E v \in Contributing :
                      Contributing = {v} /\ AllCostsParsed(vendor_data[v]))
    => \A i \in 1..Len(results[1]) : \A v \in Contributing :
          LET row == results[1][i] IN
          IF KeyOccurs(vendor_data[v], row["upc_normalized"])
          THEN row["min_cost"] # None /\ row["cost_sources"] >= 1
          ELSE row["min_cost"] = None

\* C9: every record of a frame returned by extract_vendor_data has a non-null
\* canonical key, so no record with a null key reaches create_matching_test.
C9_NoNullKey ==
    /\ \A v \in DOMAIN vendor_data : \A j \in 1..Len(vendor_data[v]) :
          vendor_data[v][j]["upc_normalized"] # None
    /\ results # None =>
          \A i \in 1..Len(results[1]) : results[1][i]["upc_normalized"] # None

\* A file whose first row held a short code: the row was dropped, and the
\* record of the second row keeps its label 1
C9_Witness ==
    \E v \in DOMAIN vendor_data :
        /\ Len(vendor_data[v]) = 1
        /\ vendor_data[v][1]["idx"] = 1
        /\ vendor_data[v][1]["upc_normalized"] = Some("759253012")

\* The non-null per-vendor costs of a reconciled record
VendorsWithCost(row) == { v \in Contributing : row[cost_column(v)] # None }

\* C10: once the vendors are joined, min_cost of every reconciled record is the
\* minimum of its non-null per-vendor costs and cost_sources their number;
\* min_cost is null exactly when cost_sources = 0 and never above a per-vendor
\* cost.  (Reconciling no vendor at all is C27's case.)
C10_MinAndCount ==
    (Reconciled /\ Contributing # {}) =>
        \A i \in 1..Len(results[1]) :
            LET row == results[1][i]
                with_cost == VendorsWithCost(row)
            IN  /\ {"min_cost", "cost_sources"} \subseteq DOMAIN row
                /\ row["cost_sources"] = Cardinality(with_cost)
                /\ (row["min_cost"] = None) <=> (row["cost_sources"] = 0)
                /\ \A v \in with_cost : row["min_cost"][1] <= row[cost_column(v)][1]
                /\ with_cost # {} =>
                      \E v \in with_cost : row["min_cost"] = row[cost_column(v)]

\* A record priced by two vendors at different costs carries the lower one
C10_Witness ==
    /\ Reconciled
    /\ Contributing = {"KEHE", "HANA"}
    /\ \E i \in 1..Len(results[1]) :
          /\ results[1][i]["kehe_cost"] = Some(225)
          /\ results[1][i]["hana_cost"] = Some(150)
          /\ results[1][i]["min_cost"] = Some(150)
          /\ results[1][i]["cost_sources"] = 2

-----------------------------------------------------------------------------
(* Properties of the classifier, checked under SpecDetect and SpecScore *)

ScoresSome(row) == _score_vendor_match(row) # None

\* The index of the first candidate row of a sheet that a registered signature
\* matches: 0 for the header row, i for data row i
GenericIndex(sheet) ==
    IF ScoresSome(sheet.columns) THEN 0
    ELSE SetMin({ i \in 0..(Min(Len(sheet.rows), RowsToCheck) - 1) :
                    ScoresSome(sheet.rows[i + 1]) })

SheetMatches(sheet) ==
    \/ ScoresSome(sheet.columns)
    \/ \E i \in 1..Min(Len(sheet.rows), RowsToCheck) : ScoresSome(sheet.rows[i])

\* The row index discovered by the call that classified file as vendor
DiscoveredIndex(file, vendor) ==
    IF vendor = "RAINFOREST"
    THEN LET fpl == CHOOSE sh \in { file.sheets[i] : i \in 1..Len(file.sheets) } :
                        sh.name = "Full Price List"
         IN  SetMin({ i \in 0..(Min(Len(fpl.rows), RowsToCheck) - 1) :
                        _is_rainforest_headers(fpl.rows[i + 1]) })
    ELSE LET n == SetMin({ j \in 1..Len(file.sheets) : SheetMatches(file.sheets[j]) })
         IN  GenericIndex(file.sheets[n])

C6_Exclusive ==
    best_vendor # None =>
        Cardinality({ v \in DOMAIN file_signatures :
                        IsCandidate(v, headers_text(headers)) }) <= 1

-----------------------------------------------------------------------------
(* Further properties of reconciliation, checked under SpecPipe *)

\* The columns of a base record
BaseColumns == {"idx", "upc", "upc_normalized"}

\* C11: create_matching_test returns exactly one reconciled record per base
\* record, in the base extract's order and with the base record's own fields:
\* none is dropped and none is duplicated by a vendor extract with several
\* records of one key.
C11_OnePerBase ==
    Reconciled =>
        /\ Len(results[1]) = Len(vendor_data["ECRS"])
        /\ \A i \in 1..Len(results[1]) :
              [c \in BaseColumns |-> results[1][i][c]] = vendor_data["ECRS"][i]

\* Two base records, a vendor extract holding the first one's key twice, and
\* a reconciled record without any cost
C11_Witness ==
    /\ Reconciled
    /\ Len(results[1]) = 2
    /\ \E v \in Contributing :
          /\ Len(vendor_data[v]) = 2
          /\ \A j \in 1..2 :
                vendor_data[v][j]["upc_normalized"] = results[1][1]["upc_normalized"]
    /\ \E i \in 1..2 : results[1][i]["cost_sources"] = 0

-----------------------------------------------------------------------------
(* Further properties of the classifier, checked under SpecDetect *)

\* The vendors whose column map carries a header row
HasHeaderRow(vendor) == "header_row" \in DOMAIN vendor_columns_init[vendor]

\* C12: for the same file, detect_file_type returns the same vendor tag and
\* leaves the same header-row index for that vendor on every call: whatever was
\* classified before, the outcome is that of the call on a new processor.
C12_Deterministic ==
    file_path # None =>
        LET fresh == detect_file_type(file_path[1], vendor_columns_init)
        IN  /\ detected = fresh.vendor
            /\ (detected # None /\ HasHeaderRow(detected[1])) =>
                  vendor_columns[detected[1]]["header_row"]
                      = fresh.vendor_columns[detected[1]]["header_row"]

-----------------------------------------------------------------------------
(* Properties of process_vendor_cycle and extract_vendor_data, checked under *)
(* SpecCycle                                                                 *)

\* The keys of a column map that hold a column position
ColumnKeys(config) == { k \in DOMAIN config : endswith(k, "_col") }

\* The file cannot be parsed, a configured column position is out of range,
\* or the vendor tag is not in vendor_columns
CannotExtract(file, vendor_type) ==
    \/ vendor_type \notin DOMAIN vendor_columns
    \/ ~file.readable
    \/ \E k \in ColumnKeys(vendor_columns[vendor_type]) :
          vendor_columns[vendor_type][k] >= file.ncols

C13_ReturnsNone ==
    /\ (data # None /\ CannotExtract(extract_args[1].file, extract_args[1].vendor_type))
          => data[1] = None
    /\ cpc = "done" =>
          \A i \in 1..Len(vendor_files) :
              LET entry == vendor_files[i]
                  frame == extract_vendor_data(entry.file, entry.vendor, vendor_columns)
              IN  IF frame = None THEN entry.vendor \notin DOMAIN vendor_data
                  ELSE /\ entry.vendor \in DOMAIN vendor_data
                       /\ vendor_data[entry.vendor] = frame[1]

C13_ColumnsKept == cpc \in {"extract", "done"} => vendor_columns' = vendor_columns

\* C13: extract_vendor_data never raises: for a file that cannot be parsed, a
\* column position out of range or a vendor tag missing from vendor_columns it
\* returns None; it leaves vendor_columns unchanged; and process_vendor_cycle
\* still extracts every other vendor of the batch.
C13_NeverRaises == []C13_ReturnsNone /\ [][C13_ColumnsKept]_vars

\* A finished cycle whose first vendor could not be extracted and whose
\* second vendor was
C13_Witness ==
    /\ cpc = "done"
    /\ Len(vendor_files) = 2
    /\ CannotExtract(vendor_files[1].file, vendor_files[1].vendor)
    /\ vendor_files[1].vendor \notin DOMAIN vendor_data
    /\ vendor_files[2].vendor \in DOMAIN vendor_data

\* Some registered signature has all its required tokens and none of its
\* forbidden tokens in the row
RowMatches(row) ==
    \E v \in DOMAIN file_signatures : IsCandidate(v, headers_text(row))

\* RowMatches on the rows files are made of, evaluated once per row
row_matches == [r \in FileRows |-> RowMatches(r)]

\* The candidate rows of a sheet: its header row and its first data rows
CandidateRows(sheet) ==
    {sheet.columns} \cup { sheet.rows[i] : i \in 1..Min(Len(sheet.rows), RowsToCheck) }

\* No signature matches any candidate row of the file: neither a registered
\* one on a searched sheet nor the RAINFOREST one on a data row of the
\* "Full Price List" sheet
NoSignatureMatches(file) ==
    /\ \A n \in 1..Min(Len(file.sheets), SheetsToCheck) :
          \A row \in CandidateRows(file.sheets[n]) : ~row_matches[row]
    /\ file.suffix \notin {".csv", ".CSV"} =>
          \A n \in 1..Len(file.sheets) :
              file.sheets[n].name = "Full Price List" =>
                  \A i \in 1..Min(Len(file.sheets[n].rows), RowsToCheck) :
                      ~row_is_rainforest[file.sheets[n].rows[i]]

\* The files the classification loop has been through
Classified ==
    SubSeq(downloaded_files, 1, IF cpc = "detect" THEN cursor
                                ELSE IF cpc = "start" THEN 0
                                ELSE Len(downloaded_files))

\* C14: a file none of whose candidate rows matches a signature gets a null
\* vendor tag and is recorded as unidentified, and process_vendor_cycle goes
\* on: the files after it are classified, and every identified vendor is
\* extracted.
C14_Unidentified ==
    /\ unidentified_files = SelectSeq(Classified, LAMBDA f : NoSignatureMatches(f))
    /\ (cpc = "detect" /\ cursor > 0 /\ NoSignatureMatches(file_path[1]))
          => detected = None
    /\ cpc = "done" =>
          \A i \in 1..Len(downloaded_files) :
              ~NoSignatureMatches(downloaded_files[i]) =>
                  \E j \in 1..Len(vendor_files) :
                      /\ Some(vendor_files[j].vendor)
                            = detect_file_type(downloaded_files[i], vendor_columns_init).vendor
                      /\ extract_vendor_data(vendor_files[j].file, vendor_files[j].vendor,
                                             vendor_columns) # None
                            => vendor_files[j].vendor \in DOMAIN vendor_data

\* A finished cycle whose first file was unidentified and whose second file
\* was classified and extracted
C14_Witness ==
    /\ cpc = "done"
    /\ Len(downloaded_files) = 2
    /\ NoSignatureMatches(downloaded_files[1])
    /\ unidentified_files = <<downloaded_files[1]>>
    /\ Len(vendor_files) = 1
    /\ vendor_files[1].file = downloaded_files[2]
    /\ vendor_files[1].vendor \in DOMAIN vendor_data

-----------------------------------------------------------------------------
(* Exceptions while probing, checked under SpecDetect *)

\* The file with every sheet whose read raises replaced by a readable sheet
\* of the same name that matches nothing
Blanked(file) ==
    [suffix |-> file.suffix,
     sheets |-> [i \in 1..Len(file.sheets) |->
                   IF file.sheets[i].raises
                   THEN Named([columns |-> TitleRow, rows |-> <<>>], file.sheets[i].name)
                   ELSE file.sheets[i]]]

\* C15: a candidate whose probing raises counts as no match and the search
\* goes on with the next candidate: the vendor tag returned is the one the
\* file would get with that candidate matching nothing, so a later candidate
\* that matches still determines it.
C15_SearchContinues ==
    file_path # None =>
        detected = detect_file_type(Blanked(file_path[1]), vendor_columns_init).vendor

\* A workbook whose first sheet could not be read and whose second sheet gave
\* the vendor tag
C15_Witness ==
    /\ file_path # None
    /\ Len(file_path[1].sheets) >= 2
    /\ file_path[1].sheets[1].raises
    /\ SheetMatches(file_path[1].sheets[2])
    /\ detected # None

-----------------------------------------------------------------------------
(* Properties of _score_vendor_match, checked under SpecScore *)

\* The upper-cased concatenated text of a row: its cells trimmed, joined by
\* single spaces, a missing cell counting as empty
RowText(row) ==
    upper(join([i \in 1..Len(row) |->
                  IF row[i] = None \/ row[i] = Some("nan") THEN "" ELSE strip(row[i][1])],
               " "))

\* Every required token of the vendor is a substring of the text and none of
\* its forbidden tokens is
Satisfies(vendor, text) ==
    /\ \A i \in 1..Len(file_signatures[vendor].required) :
          Contains(text, upper(file_signatures[vendor].required[i]))
    /\ \A i \in 1..Len(file_signatures[vendor].forbidden) :
          ~Contains(text, upper(file_signatures[vendor].forbidden[i]))

\* C16: _score_vendor_match returns a vendor tag only if every required token
\* of that vendor is in the row text and none of its forbidden tokens is, and
\* returns null exactly when no registered vendor satisfies both; an empty or
\* all-blank row gets null.
C16_ScoreIff ==
    best_vendor # None =>
        LET text == RowText(headers)
            satisfying == { v \in DOMAIN file_signatures : Satisfies(v, text) }
        IN  /\ best_vendor[1] # None => best_vendor[1][1] \in satisfying
            /\ best_vendor[1] = None <=> satisfying = {}
            /\ strip(text) = "" => best_vendor[1] = None

\* A row with both required tokens of KEHE and one of its forbidden tokens,
\* scored null
C16_Witness ==
    /\ best_vendor = Some(None)
    /\ \E v \in DOMAIN file_signatures :
          /\ \A i \in 1..Len(file_signatures[v].required) :
                Contains(RowText(headers), upper(file_signatures[v].required[i]))
          /\ ~Satisfies(v, RowText(headers))

-----------------------------------------------------------------------------
(* Further properties of normalize_upc, checked under SpecNorm *)

\* The digits of a string, in order
RECURSIVE DigitsOf(_)
DigitsOf(s) ==
    IF Len(s) = 0 THEN ""
    ELSE DigitsOf(Take(s, Len(s) - 1))
         \o (IF CharAt(s, Len(s)) \in Digits THEN CharAt(s, Len(s)) ELSE "")

\* C17: padding and separators do not change the canonical key: an
\* identifier made of an all-digit identifier d by prepending zeros and
\* inserting hyphens or whitespace normalizes to what d normalizes to.
C17_PaddingInvariant ==
    (npc # "start" /\ upc # None /\ IsDigitsWithSeparators(upc[1])) =>
        LET digits == DigitsOf(upc[1]) IN
        \A z \in 0..(Len(digits) - 1) :
            (\A i \in 1..z : CharAt(digits, i) = "0")
                => normalize_upc(Some(Drop(digits, z))) = key

\* A hyphenated identifier behind a leading zero got the key of its digits
C17_Witness ==
    /\ npc = "normalized"
    /\ upc = Some("0-123-456-78901")
    /\ key = Some("12345678901")
    /\ normalize_upc(Some("12345678901")) = key

\* The text before the first decimal point
BeforePoint(s) ==
    IF \E i \in 1..Len(s) : CharAt(s, i) = "."
    THEN Take(s, (CHOOSE i \in 1..Len(s) :
                     /\ CharAt(s, i) = "."
                     /\ \A j \in 1..(i - 1) : CharAt(s, j) # ".") - 1)
    ELSE s

\* The identifier after decimal truncation and removal of hyphens and
\* whitespace
RECURSIVE Without(_, _)
Without(s, chars) ==
    IF Len(s) = 0 THEN ""
    ELSE Without(Take(s, Len(s) - 1), chars)
         \o (IF CharAt(s, Len(s)) \in chars THEN "" ELSE CharAt(s, Len(s)))

Cleaned(s) == Without(BeforePoint(s), {"-"} \cup Whitespace)

\* C18: an identifier that, after decimal truncation and removal of hyphens
\* and whitespace, holds a non-digit character is returned as that cleaned
\* string: no zero stripping, no short-code rejection, no truncation.
C18_PassThrough ==
    (/\ npc # "start"
     /\ upc # None
     /\ \E i \in 1..Len(Cleaned(upc[1])) : CharAt(Cleaned(upc[1]), i) \notin Digits)
    => key = Some(Cleaned(upc[1]))

\* A short code with leading zeros and a letter came back whole
C18_Witness ==
    /\ npc = "normalized"
    /\ upc = Some("00123A")
    /\ key = Some("00123A")

\* C19: everything from the first decimal point on is discarded before any
\* other rule applies: an identifier d + "." + s normalizes to what d, the
\* text before its first decimal point, normalizes to.
C19_DecimalCut ==
    (npc # "start" /\ upc # None /\ HasChar(upc[1], ".")) =>
        key = normalize_upc(Some(BeforePoint(upc[1])))

-----------------------------------------------------------------------------
(* Match rate and derived fields of create_matching_test, checked under *)
(* SpecPipe                                                             *)

\* The base records whose key occurs in the extract of vendor v
Matched(v) ==
    Cardinality({ i \in 1..Len(vendor_data["ECRS"]) :
        KeyOccurs(vendor_data[v], vendor_data["ECRS"][i]["upc_normalized"]) })

\* C21: the match rate reported for a vendor is the number of matched records
\* divided by the number of identifiers in that vendor's own extract (both
\* rates are compared as fractions, for non-empty extracts).
C21_MatchRate ==
    Reconciled =>
        \A v \in Contributing :
            (vendor_data[v] # <<>> /\ vendor_data["ECRS"] # <<>>)
            => match_rates[v][1] * Len(vendor_data[v])
                   = Matched(v) * match_rates[v][2]

\* C27: reconciled with a base extract and no cost extract, every record
\* carries the derived fields, min_cost null and cost_sources 0.
C27_DerivedFieldsAlways ==
    (Reconciled /\ Contributing = {}) =>
        \A i \in 1..Len(results[1]) :
            /\ "min_cost" \in DOMAIN results[1][i]
            /\ "cost_sources" \in DOMAIN results[1][i]
            /\ results[1][i]["min_cost"] = None
            /\ results[1][i]["cost_sources"] = 0

-----------------------------------------------------------------------------
(* The frame of the configuration, checked under SpecCycle *)

\* The fixed entries of vendor_columns are those of the constructor
FixedEntriesKept ==
    /\ DOMAIN vendor_columns' = DOMAIN vendor_columns
    /\ \A v \in DOMAIN vendor_columns :
          /\ DOMAIN vendor_columns'[v] = DOMAIN vendor_columns[v]
          /\ \A k \in DOMAIN vendor_columns[v] \ {"header_row"} :
                vendor_columns'[v][k] = vendor_columns[v][k]

\* The vendors whose header_row the step has changed
Rewritten ==
    { v \in DOMAIN vendor_columns :
        /\ "header_row" \in DOMAIN vendor_columns[v]
        /\ vendor_columns'[v]["header_row"] # vendor_columns[v]["header_row"] }

\* C22: across classify, extract and reconcile calls every fixed column
\* position and sheet name of vendor_columns stays unchanged; a step changes at
\* most the header_row of the vendor a classify call has just returned, so a
\* call returning null or a fixed-header vendor writes nothing.  (The registry
\* file_signatures is never assigned after the constructor.)
C22_Frame ==
    [][/\ FixedEntriesKept
       /\ \A v \in Rewritten :
             /\ cpc = "detect" /\ cursor' = cursor + 1
             /\ detected' = Some(v)]_vars

\* A batch was classified, extracted and reconciled, and the classifier has
\* rewritten the header row of UNFI
C22_Witness ==
    /\ cpc = "done"
    /\ results # None
    /\ data # None
    /\ vendor_columns["UNFI"]["header_row"]
           # vendor_columns_init["UNFI"]["header_row"]

-----------------------------------------------------------------------------
(* The search order of the classifier, checked under SpecDetect *)

IsCsv(file) == file.suffix \in {".csv", ".CSV"}

\* A candidate of a file: sheet n and position c, 0 for the row parsed as the
\* column headers and i for the i-th data row
Candidate(file, p) ==
    IF p[2] = 0 THEN file.sheets[p[1]].columns ELSE file.sheets[p[1]].rows[p[2]]

\* The candidates of generic classification: on each of the first sheets that
\* can be read, the header row and the first data rows
SearchSpace(file) ==
    { p \in (1..Min(Len(file.sheets), SheetsToCheck)) \X (0..RowsToCheck) :
        /\ ~file.sheets[p[1]].raises
        /\ p[2] <= Len(file.sheets[p[1]].rows) }

Earlier(p, q) == p[1] < q[1] \/ (p[1] = q[1] /\ p[2] < q[2])

\* The vendor of the earliest candidate a registered signature matches
GenericVendor(file) ==
    LET matching == { p \in SearchSpace(file) : row_matches[Candidate(file, p)] }
    IN  IF matching = {} THEN None
        ELSE LET first == CHOOSE p \in matching :
                              \A q \in matching : p = q \/ Earlier(p, q)
             IN  row_score[Candidate(file, first)]

\* One of the first data rows of the sheet "Full Price List" of a workbook
\* satisfies the Rainforest signature
RainforestHit(file) ==
    /\ ~IsCsv(file)
    /\ \E n \in 1..Len(file.sheets) :
          /\ file.sheets[n].name = "Full Price List"
          /\ ~file.sheets[n].raises
          /\ \E i \in 1..Min(Len(file.sheets[n].rows), RowsToCheck) :
                row_is_rainforest[file.sheets[n].rows[i]]

-----------------------------------------------------------------------------
(* The Rainforest signature and the choice among candidates, checked under *)
(* SpecScore                                                               *)

\* The four conditions of the Rainforest signature that hold on a text
RainforestConditions(text) ==
    { c \in {"ITEM NO", "MANUFACTURER NAME", "UNIT COST"} : Contains(text, c) }
    \cup (IF Contains(text, "UPC") /\ ~Contains(text, "UPC#") THEN {"UPC"} ELSE {})

\* C25: a row satisfies the Rainforest signature exactly when at least 3 of
\* the 4 conditions hold on its upper-cased text: it contains "ITEM NO",
\* "MANUFACTURER NAME", "UNIT COST", and "UPC" without "UPC#"; an empty row
\* never satisfies it.
C25_RainforestIff ==
    is_rainforest # None =>
        /\ is_rainforest[1] <=> Cardinality(RainforestConditions(RowText(headers))) >= 3
        /\ headers = <<>> => ~is_rainforest[1]

\* A row with exactly three of the conditions, "UPC" among them, accepted
C25_Witness ==
    /\ is_rainforest = Some(TRUE)
    /\ Cardinality(RainforestConditions(RowText(headers))) = 3
    /\ "UPC" \in RainforestConditions(RowText(headers))

\* The required-match ratio of a vendor on a text, as <<matched, required>>
RequiredRatio(vendor, text) ==
    <<Cardinality({ i \in 1..Len(file_signatures[vendor].required) :
                      Contains(text, upper(file_signatures[vendor].required[i])) }),
      Len(file_signatures[vendor].required)>>

\* The position of a vendor in the registry
RegistryPosition(vendor) ==
    CHOOSE i \in 1..Len(signature_order) : signature_order[i] = vendor

\* C26: among the vendors that are candidate matches for a row,
\* _score_vendor_match returns one of highest required-match ratio, and of
\* those the one the registry holds first.
C26_BestCandidate ==
    (best_vendor # None /\ best_vendor[1] # None) =>
        LET text == RowText(headers)
            candidates == { v \in DOMAIN file_signatures : Satisfies(v, text) }
            best == best_vendor[1][1]
        IN  /\ best \in candidates
            /\ \A v \in candidates :
                  LET rv == RequiredRatio(v, text)
                      rb == RequiredRatio(best, text)
                  IN  \/ rv[1] * rb[2] < rb[1] * rv[2]
                      \/ /\ rv[1] * rb[2] = rb[1] * rv[2]
                         /\ RegistryPosition(best) <= RegistryPosition(v)

\* A row for which two registered vendors are candidates
C26_Witness ==
    /\ best_vendor # None
    /\ best_vendor[1] # None
    /\ Cardinality({ v \in DOMAIN file_signatures :
                       Satisfies(v, RowText(headers)) }) >= 2

-----------------------------------------------------------------------------
(* The discovered header row as a physical row, checked under SpecDetect *)

\* The physical row (0 for the row parsed as column headers, i for the i-th
\* data row below it) on which the file was matched as the vendor
PhysicalRow(file, vendor) ==
    IF vendor = "RAINFOREST"
    THEN LET fpl == CHOOSE sh \in { file.sheets[n] : n \in 1..Len(file.sheets) } :
                        sh.name = "Full Price List"
         IN  SetMin({ i \in 1..Min(Len(fpl.rows), RowsToCheck) :
                        row_is_rainforest[fpl.rows[i]] })
    ELSE LET matching == { p \in SearchSpace(file) : row_matches[Candidate(file, p)] }
         IN  (CHOOSE p \in matching : \A q \in matching : p = q \/ Earlier(p, q))[2]

\* C28: when UNFI is matched in a delimited file, or RAINFOREST in the sheet
\* "Full Price List", on physical row r, the stored header_row is r.
C28_PhysicalRow ==
    (/\ file_path # None
     /\ \/ IsCsv(file_path[1]) /\ detected = Some("UNFI")
        \/ detected = Some("RAINFOREST"))
    => vendor_columns[detected[1]]["header_row"]
           = PhysicalRow(file_path[1], detected[1])

-----------------------------------------------------------------------------
(* The empty key, checked under SpecNorm *)

\* C29: normalize_upc never returns the empty string.
C29_NeverEmpty == npc # "start" => key # Some("")

-----------------------------------------------------------------------------
(* Files of one vendor in a batch, checked under SpecCycle *)

\* The records of a frame
Records(df) == { df[j] : j \in 1..Len(df) }

\* C30: after process_vendor_cycle, for every file of the batch classified
\* with a vendor tag, the records extract_vendor_data gets from it are in the
\* returned extract of that vendor, and for a floating-header vendor the
\* header row in force is the one discovered while classifying that file.
C30_EveryFileExtracted ==
    cpc = "done" =>
        \A i \in 1..Len(downloaded_files) :
            LET file == downloaded_files[i]
                found == detect_file_type(file, vendor_columns_init)
                frame == extract_vendor_data(file, found.vendor[1], vendor_columns)
            IN  found.vendor # None =>
                  /\ frame # None =>
                        /\ found.vendor[1] \in DOMAIN vendor_data
                        /\ Records(frame[1]) \subseteq Records(vendor_data[found.vendor[1]])
                  /\ HasHeaderRow(found.vendor[1]) =>
                        vendor_columns[found.vendor[1]]["header_row"]
                            = found.vendor_columns[found.vendor[1]]["header_row"]

====
